---- MODULE Spec2Model ----
(***************************************************************************)
(* Model of main.py: two strategies for multi-pattern substring search     *)
(* (brute_force_search, rolling_hash_search with create_substring_hashes)  *)
(* and the timing harness analyze_time_complexity.                         *)
(*                                                                         *)
(* A Python str is a sequence of one-character strings.  The builtin       *)
(* hash() is an arbitrary function that is fixed for one program run: the  *)
(* variable hash holds the values the run has observed so far, a string    *)
(* hashed for the first time gets any value of HashVals, and a string      *)
(* hashed again gets the value it got before.                              *)
(***************************************************************************)
EXTENDS Integers, Sequences, FiniteSets, TLC

\* ---------------------------------------------------------------- bounds
MaxTextLen == 2
MaxPatLen == 2
MaxPatterns == 2
HashRange == 3
MaxIter == 2
MaxTime == 1

Alphabet == {"a", "b"}

RECURSIVE StringsOfLen(_)
StringsOfLen(n) ==
    IF n = 0 THEN {<<>>}
    ELSE {Append(s, c) : s \in StringsOfLen(n - 1), c \in Alphabet}

StringsUpTo(n) == UNION {StringsOfLen(m) : m \in 0..n}

RECURSIVE ListsOfLen(_, _)
ListsOfLen(S, n) ==
    IF n = 0 THEN {<<>>}
    ELSE {Append(l, x) : l \in ListsOfLen(S, n - 1), x \in S}

ListsUpTo(S, n) == UNION {ListsOfLen(S, m) : m \in 0..n}

Texts == StringsUpTo(MaxTextLen)
PatternSets == ListsUpTo(StringsUpTo(MaxPatLen), MaxPatterns)
HashVals == 0..(HashRange - 1)
TimeSamples == 0..MaxTime

\* ------------------------------------------------- main()'s fixed inputs
demo_main_str ==
    <<"h","e","l","l","o","t","h","e","r","e","h","o","w","a","r","e","y","o","u">>

demo_substrings ==
    << <<"h","e","l","l","o">>,
       <<"t","h","e","r","e">>,
       <<"h","o","w">>,
       <<"a","r","e">>,
       <<"y","o","u">>,
       <<"t","e","s","t">>,
       <<"y","o","u","a","r","e">>,
       <<"h","e","l","l","o","t","h","e","r","e">> >>

\* ----------------------------------------------------------------- state
VARIABLES
    main_str,          \* the Text
    substrings,        \* the Pattern Set, a list
    hash,              \* the values of hash() observed so far in this run
    pc,                \* the function (and place) that is executing
    caller,            \* who called create_substring_hashes
    idx,               \* position of `for substring in substrings` (1-based)
    result,            \* local `result` of the executing strategy
    max_len,           \* local `max_len`
    k,                 \* create_substring_hashes: outer loop variable
    i,                 \* create_substring_hashes: inner loop variable
    substring_hashes,  \* create_substring_hashes: the set being built
    hash_ops,          \* number of executions of line 14 in the current call
    main_str_hashes,   \* rolling_hash_search: the set it got back
    brute_result,      \* what the last finished brute_force_search returned
    brute_done,        \* brute_force_search has returned at least once
    rolling_result,    \* what the last finished rolling_hash_search returned
    rolling_done,      \* rolling_hash_search has returned at least once
    iterations,        \* analyze_time_complexity: parameter
    brute_times,       \* analyze_time_complexity: samples of strategy A
    rolling_times,     \* analyze_time_complexity: samples of strategy B
    report,            \* sections printed by analyze_time_complexity
    raised,            \* the exception analyze_time_complexity ended with
    returned           \* the value analyze_time_complexity returned

inputs == <<main_str, substrings>>
searchLocals == <<idx, result, max_len, main_str_hashes>>
cshLocals == <<caller, k, i, substring_hashes, hash_ops>>
returns == <<brute_result, brute_done, rolling_result, rolling_done>>
harness == <<iterations, brute_times, rolling_times, report, raised, returned>>
vars == <<inputs, hash, pc, searchLocals, cshLocals, returns, harness>>

EmptyFcn == [x \in {} |-> 0]
NoValue == <<>>

\* ------------------------------------------------------ Python primitives
Min(a, b) == IF a < b THEN a ELSE b

\* s[lo:hi] for 0 <= lo: the slice is clamped to the end of s
Slice(s, lo, hi) == SubSeq(s, lo + 1, Min(hi, Len(s)))

\* the operands swapped: t in s
Contains_Swapped(s, t) ==
    \E o \in 0..(Len(s) - Len(t)) : Slice(s, o, o + Len(t)) = t

\* only the first offset is tried: t.startswith(s)
Contains_PrefixOnly(s, t) ==
    Len(s) <= Len(t) /\ Slice(t, 0, Len(s)) = s

\* s in t, for two str
Contains(s, t) ==
    \E o \in 0..(Len(t) - Len(s)) : Slice(t, o, o + Len(s)) = s

\* range(n) as the set of its values
Range(n) == 0..(n - 1)

\* hash(s): the values this call can return, given what the run has seen
HashOutcomes(s) == IF s \in DOMAIN hash THEN {hash[s]} ELSE HashVals

Remember(s, v) == IF s \in DOMAIN hash THEN hash ELSE (s :> v) @@ hash

RECURSIVE MaxOf(_)
MaxOf(S) ==
    LET x == CHOOSE y \in S : TRUE
    IN  IF S = {x} THEN x
        ELSE LET m == MaxOf(S \ {x}) IN IF x > m THEN x ELSE m

\* the empty list answered with 1 instead of 0
max_pattern_len_DefaultOne(subs) ==
    IF subs # <<>> THEN MaxOf({Len(subs[j]) : j \in 1..Len(subs)}) ELSE 1

\* line 20: max(len(s) for s in substrings) if substrings else 0
max_pattern_len(subs) ==
    IF subs # <<>> THEN MaxOf({Len(subs[j]) : j \in 1..Len(subs)}) ELSE 0

\* ------------------------------------------------------------------ Init
InitLocals ==
    /\ hash = EmptyFcn
    /\ pc = "idle"
    /\ caller = "none"
    /\ idx = 0
    /\ result = <<>>
    /\ max_len = 0
    /\ k = 0
    /\ i = 0
    /\ substring_hashes = {}
    /\ hash_ops = 0
    /\ main_str_hashes = {}
    /\ brute_result = <<>>
    /\ brute_done = FALSE
    /\ rolling_result = <<>>
    /\ rolling_done = FALSE
    /\ iterations = 0
    /\ brute_times = <<>>
    /\ rolling_times = <<>>
    /\ report = <<>>
    /\ raised = "none"
    /\ returned = NoValue

InitBounded ==
    /\ main_str \in Texts
    /\ substrings \in PatternSets

InitDemo ==
    /\ main_str = demo_main_str
    /\ substrings = demo_substrings

Init ==
    /\ InitBounded
    /\ InitLocals

\* ------------------------------------------------- brute_force_search
\* the list survives from the previous call (a shared default list)
BruteCall_SharedList ==
    /\ pc = "idle"
    /\ pc' = "brute_force_search"
    /\ result' = brute_result
    /\ idx' = 1
    /\ UNCHANGED <<inputs, hash, max_len, main_str_hashes, cshLocals, returns, harness>>

\* lines 4-6: the call binds the arguments and the comprehension starts
\* with an empty list
BruteCall ==
    /\ pc = "idle"
    /\ pc' = "brute_force_search"
    /\ result' = <<>>
    /\ idx' = 1
    /\ UNCHANGED <<inputs, hash, max_len, main_str_hashes, cshLocals, returns, harness>>

\* a pattern already in the list is not added again
BruteStep_Dedup ==
    /\ pc = "brute_force_search"
    /\ idx <= Len(substrings)
    /\ result' = IF /\ Contains(substrings[idx], main_str)
                    /\ \A j \in 1..Len(result) : result[j] # substrings[idx]
                 THEN Append(result, substrings[idx])
                 ELSE result
    /\ idx' = idx + 1
    /\ UNCHANGED <<inputs, hash, pc, max_len, main_str_hashes, cshLocals, returns, harness>>

\* line 6: one element of [s for s in substrings if s in main_str]
BruteStep ==
    /\ pc = "brute_force_search"
    /\ idx <= Len(substrings)
    /\ result' = IF Contains(substrings[idx], main_str)
                 THEN Append(result, substrings[idx])
                 ELSE result
    /\ idx' = idx + 1
    /\ UNCHANGED <<inputs, hash, pc, max_len, main_str_hashes, cshLocals, returns, harness>>

\* line 7: return result; the frame is dropped
BruteReturn ==
    /\ pc = "brute_force_search"
    /\ idx > Len(substrings)
    /\ brute_result' = result
    /\ brute_done' = TRUE
    /\ pc' = "idle"
    /\ result' = <<>>
    /\ idx' = 0
    /\ UNCHANGED <<inputs, hash, max_len, main_str_hashes, cshLocals,
                   rolling_result, rolling_done, harness>>

\* --------------------------------------------- create_substring_hashes
\* the frame of a call create_substring_hashes(main_str, m): line 11
CshEnter(m, from) ==
    /\ max_len' = m
    /\ caller' = from
    /\ substring_hashes' = {}
    /\ hash_ops' = 0
    /\ k' = 1
    /\ i' = 0
    /\ pc' = "create_substring_hashes"

\* the last offset of every length is left out
InnerRange_OffByOne(kk) == Range(Len(main_str) - kk)

\* line 13: range(len(main_str) - k + 1)
InnerRange(kk) == Range(Len(main_str) - kk + 1)

\* a direct call (main, line 126) with any max_len >= 0
CshCall ==
    /\ pc = "idle"
    /\ \E m \in 0..(MaxPatLen + 1) : CshEnter(m, "main")
    /\ UNCHANGED <<inputs, hash, idx, result, main_str_hashes, returns, harness>>

\* line 14: substring_hashes.add(hash(main_str[i:i+k])), i in
\* range(len(main_str) - k + 1), k in range(1, max_len + 1)
CshAdd ==
    /\ pc = "create_substring_hashes"
    /\ k <= max_len
    /\ i \in InnerRange(k)
    /\ \E v \in HashOutcomes(Slice(main_str, i, i + k)) :
          /\ hash' = Remember(Slice(main_str, i, i + k), v)
          /\ substring_hashes' = substring_hashes \cup {v}
    /\ hash_ops' = hash_ops + 1
    /\ i' = i + 1
    /\ UNCHANGED <<inputs, pc, caller, k, searchLocals, returns, harness>>

\* line 13 exhausted: next k of line 12
CshNextK ==
    /\ pc = "create_substring_hashes"
    /\ k <= max_len
    /\ i \notin InnerRange(k)
    /\ k' = k + 1
    /\ i' = 0
    /\ UNCHANGED <<inputs, hash, pc, caller, substring_hashes, hash_ops,
                   searchLocals, returns, harness>>

\* line 15: return substring_hashes, to main (which only prints its size)
CshReturnToMain ==
    /\ pc = "create_substring_hashes"
    /\ k > max_len
    /\ caller = "main"
    /\ pc' = "idle"
    /\ caller' = "none"
    /\ max_len' = 0
    /\ k' = 0
    /\ i' = 0
    /\ substring_hashes' = {}
    /\ hash_ops' = 0
    /\ UNCHANGED <<inputs, hash, idx, result, main_str_hashes, returns, harness>>

\* ------------------------------------------------- rolling_hash_search
\* lines 20-23: max_len, then the call of create_substring_hashes
RollingCall ==
    /\ pc = "idle"
    /\ CshEnter(max_pattern_len(substrings), "rolling_hash_search")
    /\ UNCHANGED <<inputs, hash, idx, result, main_str_hashes, returns, harness>>

\* line 15 returning into line 23, then line 26: result = []
CshReturnToRolling ==
    /\ pc = "create_substring_hashes"
    /\ k > max_len
    /\ caller = "rolling_hash_search"
    /\ main_str_hashes' = substring_hashes
    /\ result' = <<>>
    /\ idx' = 1
    /\ pc' = "rolling_hash_search"
    /\ caller' = "none"
    /\ k' = 0
    /\ i' = 0
    /\ substring_hashes' = {}
    /\ hash_ops' = 0
    /\ UNCHANGED <<inputs, hash, max_len, returns, harness>>

\* lines 27-30: one pattern of the lookup loop
RollingLookup ==
    /\ pc = "rolling_hash_search"
    /\ idx <= Len(substrings)
    /\ \E substring_hash \in HashOutcomes(substrings[idx]) :
          /\ hash' = Remember(substrings[idx], substring_hash)
          /\ result' = IF substring_hash \in main_str_hashes
                       THEN Append(result, substrings[idx])
                       ELSE result
    /\ idx' = idx + 1
    /\ UNCHANGED <<inputs, pc, max_len, main_str_hashes, cshLocals, returns, harness>>

\* line 32: return result; the frame is dropped
RollingReturn ==
    /\ pc = "rolling_hash_search"
    /\ idx > Len(substrings)
    /\ rolling_result' = result
    /\ rolling_done' = TRUE
    /\ pc' = "idle"
    /\ result' = <<>>
    /\ idx' = 0
    /\ max_len' = 0
    /\ main_str_hashes' = {}
    /\ UNCHANGED <<inputs, hash, cshLocals, brute_result, brute_done, harness>>

\* --------------------------------------------- analyze_time_complexity
RECURSIVE Sum(_)
Sum(seq) == IF seq = <<>> THEN 0 ELSE Head(seq) + Sum(Tail(seq))

SeqMin(seq) == CHOOSE x \in {seq[j] : j \in 1..Len(seq)} :
                   \A j \in 1..Len(seq) : x <= seq[j]

SeqMax(seq) == MaxOf({seq[j] : j \in 1..Len(seq)})

\* sum(times) / len(times), kept as an exact fraction
Avg(times) == [num |-> Sum(times), den |-> Len(times)]

Less(x, y) == x.num * y.den < y.num * x.den

\* x / y raises ZeroDivisionError exactly when y is 0.0
DivRaises(x, y) == y.num = 0

\* lines 93 and 139: sum(len(main_str) - k + 1 for k in range(1, max(...) + 1)),
\* for a non-empty pattern list
RECURSIVE SumTerms(_, _)
SumTerms(n, m) == IF m < 1 THEN 0 ELSE (n - m + 1) + SumTerms(n, m - 1)

total_substrings_generated(text, subs) ==
    SumTerms(Len(text), MaxOf({Len(subs[j]) : j \in 1..Len(subs)}))

\* lines 42-50: the call, the header and the empty sample list
HarnessCall ==
    /\ pc = "idle"
    /\ iterations' \in 1..MaxIter
    /\ report' = <<[section |-> "PERFORMANCE ANALYSIS"]>>
    /\ brute_times' = <<>>
    /\ rolling_times' = <<>>
    /\ raised' = "none"
    /\ returned' = NoValue
    /\ pc' = "atc_timing"
    /\ UNCHANGED <<inputs, hash, searchLocals, cshLocals, returns>>

\* lines 51-53: one timed call of brute_force_search through time_function
\* (lines 34-40).  The strategy assigns nothing outside its own frame and the
\* harness discards its result (`_`), so what the iteration leaves behind is
\* the sample: the difference of two perf_counter readings, which is >= 0
\* and is 0 when both readings fall in one tick of the clock.
HarnessTimeBrute ==
    /\ pc = "atc_timing"
    /\ Len(brute_times) < iterations
    /\ \E exec_time \in TimeSamples : brute_times' = Append(brute_times, exec_time)
    /\ UNCHANGED <<inputs, hash, pc, searchLocals, cshLocals, returns,
                   iterations, rolling_times, report, raised, returned>>

\* lines 56-59: one timed call of rolling_hash_search
HarnessTimeRolling ==
    /\ pc = "atc_timing"
    /\ Len(brute_times) = iterations
    /\ Len(rolling_times) < iterations
    /\ \E exec_time \in TimeSamples : rolling_times' = Append(rolling_times, exec_time)
    /\ UNCHANGED <<inputs, hash, pc, searchLocals, cshLocals, returns,
                   iterations, brute_times, report, raised, returned>>

\* lines 62-79: the statistics and their two sections
HarnessStatistics ==
    /\ pc = "atc_timing"
    /\ Len(brute_times) = iterations
    /\ Len(rolling_times) = iterations
    /\ report' = report \o
          <<[section |-> "BRUTE FORCE APPROACH", avg |-> Avg(brute_times),
             min |-> SeqMin(brute_times), max |-> SeqMax(brute_times)],
            [section |-> "ROLLING HASH APPROACH", avg |-> Avg(rolling_times),
             min |-> SeqMin(rolling_times), max |-> SeqMax(rolling_times)]>>
    /\ pc' = "atc_comparison"
    /\ UNCHANGED <<inputs, hash, searchLocals, cshLocals, returns,
                   iterations, brute_times, rolling_times, raised, returned>>

\* lines 82-89: the ratio of the two averages
HarnessComparison ==
    /\ pc = "atc_comparison"
    /\ LET brute_avg == Avg(brute_times)
           rolling_avg == Avg(rolling_times)
           fails == \/ Less(rolling_avg, brute_avg) /\ DivRaises(brute_avg, rolling_avg)
                    \/ Less(brute_avg, rolling_avg) /\ DivRaises(rolling_avg, brute_avg)
       IN  IF fails
           THEN /\ raised' = "ZeroDivisionError"
                /\ pc' = "raised"
                /\ UNCHANGED report
           ELSE /\ report' = Append(report,
                      [section |-> IF Less(rolling_avg, brute_avg) THEN "FASTER"
                                   ELSE IF Less(brute_avg, rolling_avg) THEN "SLOWER"
                                   ELSE "similar"])
                /\ pc' = "atc_analysis"
                /\ UNCHANGED raised
    /\ UNCHANGED <<inputs, hash, searchLocals, cshLocals, returns,
                   iterations, brute_times, rolling_times, returned>>

\* lines 92-105: the operation counts, then return brute_avg, rolling_avg
HarnessAnalysis ==
    /\ pc = "atc_analysis"
    /\ IF substrings = <<>>
       THEN /\ raised' = "ValueError"
            /\ pc' = "raised"
            /\ UNCHANGED <<report, returned>>
       ELSE /\ report' = Append(report,
                  [section |-> "ANALYSIS",
                   generated |-> total_substrings_generated(main_str, substrings),
                   checked |-> Len(substrings)])
            /\ returned' = <<Avg(brute_times), Avg(rolling_times)>>
            /\ pc' = "idle"
            /\ UNCHANGED raised
    /\ UNCHANGED <<inputs, hash, searchLocals, cshLocals, returns,
                   iterations, brute_times, rolling_times>>

NextHarness ==
    \/ HarnessCall
    \/ HarnessTimeBrute
    \/ HarnessTimeRolling
    \/ HarnessStatistics
    \/ HarnessComparison
    \/ HarnessAnalysis

NextBrute == BruteCall \/ BruteStep \/ BruteReturn

Next ==
    \/ BruteCall
    \/ BruteStep
    \/ BruteReturn
    \/ CshCall
    \/ CshAdd
    \/ CshNextK
    \/ CshReturnToMain
    \/ RollingCall
    \/ CshReturnToRolling
    \/ RollingLookup
    \/ RollingReturn

Spec == Init /\ [][Next]_vars

SpecHarness == Init /\ [][NextHarness]_vars

\* the bounded inputs, and the inputs main passes (lines 109-110)
InitBrute ==
    /\ InitBounded \/ InitDemo
    /\ InitLocals

SpecBrute == InitBrute /\ [][NextBrute]_vars

\* ====================================================== the properties
Elems(seq) == {seq[j] : j \in 1..Len(seq)}

\* p occurs in t as a contiguous block: t = pre \o p \o suf
Occurs(p, t) ==
    \E a \in 0..Len(t) :
        /\ a + Len(p) <= Len(t)
        /\ \A j \in 1..Len(p) : t[a + j] = p[j]

\* the positions of the Pattern Set whose pattern occurs in the Text
Kept == {j \in 1..Len(substrings) : Occurs(substrings[j], main_str)}

NthKept(n) == CHOOSE j \in Kept : Cardinality({m \in Kept : m <= j}) = n

\* the Pattern Set with exactly the positions of Kept, in order
KeptSubsequence == [n \in 1..Cardinality(Kept) |-> substrings[NthKept(n)]]

AtBruteReturn == pc = "brute_force_search" /\ idx > Len(substrings)
AtRollingReturn == pc = "rolling_hash_search" /\ idx > Len(substrings)
AtCshReturn == pc = "create_substring_hashes" /\ k > max_len

\* C1: brute_force_search returns the subsequence of the Pattern Set made of
\* the positions whose pattern is a contiguous substring of the Text, in the
\* original order and with the original multiplicity.
C1_BruteForceIsExactFilter ==
    /\ AtBruteReturn => result = KeptSubsequence
    /\ brute_done => brute_result = KeptSubsequence

\* a finished call that kept a repeated pattern twice and dropped nothing
C1_Witness_DuplicateKept ==
    /\ brute_done
    /\ Len(substrings) = 2
    /\ substrings[1] = substrings[2]
    /\ substrings[1] # <<>>
    /\ brute_result = substrings

\* C2: on main's text "hellotherehowareyou" and its eight patterns,
\* brute_force_search returns exactly hello, there, how, are, you and
\* hellothere (the first ten characters of the text); only test and youare
\* are absent.
C2_DemoResult ==
    (main_str = demo_main_str /\ substrings = demo_substrings /\ brute_done) =>
        /\ brute_result = SubSeq(demo_substrings, 1, 5) \o <<demo_substrings[8]>>
        /\ \A j \in 6..7 : demo_substrings[j] \notin Elems(brute_result)

\* C2 as stated: the result is exactly hello, there, how, are, you, and
\* test, youare and hellothere are all absent from it.
C2_AsStated ==
    (main_str = demo_main_str /\ substrings = demo_substrings /\ brute_done) =>
        /\ brute_result = SubSeq(demo_substrings, 1, 5)
        /\ \A j \in 6..8 : demo_substrings[j] \notin Elems(brute_result)

\* brute_force_search has returned on main's inputs
C2_Witness_DemoDone ==
    /\ main_str = demo_main_str
    /\ substrings = demo_substrings
    /\ brute_done
    /\ Len(brute_result) = 6


\* the hash values seen in this run do not collide
HashInjective ==
    \A s \in DOMAIN hash : \A t \in DOMAIN hash : hash[s] = hash[t] => s = t

\* the substrings of t of length 1..m, at every valid offset
SubstringsUpTo(t, m) ==
    UNION {{SubSeq(t, o + 1, o + kk) : o \in 0..(Len(t) - kk)} : kk \in 1..m}

LongPatterns == {p \in Elems(substrings) : Len(p) > Len(main_str)}

\* C3: rolling_hash_search has no false negative: every pattern that is a
\* contiguous substring of the Text (the empty pattern included) is in its
\* result, whatever the hash function.
C3_NoFalseNegative ==
    /\ rolling_done =>
          \A p \in Elems(substrings) : Occurs(p, main_str) => p \in Elems(rolling_result)
    /\ (rolling_done /\ brute_done) => Elems(brute_result) \subseteq Elems(rolling_result)

\* C4: when no two strings hashed in the run share a fingerprint,
\* rolling_hash_search and brute_force_search return the same set of patterns.
C4_SameSetWithoutCollisions ==
    (rolling_done /\ brute_done /\ HashInjective) =>
        Elems(rolling_result) = Elems(brute_result)

\* C5: with an empty Pattern Set both strategies return the empty list, and
\* in rolling_hash_search max_len is 0, nothing is hashed and the fingerprint
\* set is empty.
C5_EmptyPatternSet ==
    substrings = <<>> =>
        /\ brute_done => brute_result = <<>>
        /\ rolling_done => rolling_result = <<>>
        /\ AtBruteReturn => result = <<>>
        /\ (pc = "create_substring_hashes" /\ caller = "rolling_hash_search") =>
              max_len = 0 /\ hash_ops = 0 /\ substring_hashes = {}
        /\ pc = "rolling_hash_search" =>
              max_len = 0 /\ main_str_hashes = {} /\ result = <<>>

\* both strategies have returned on a non-empty Text and no pattern
C5_Witness_BothReturned ==
    /\ substrings = <<>>
    /\ main_str # <<>>
    /\ brute_done
    /\ rolling_done

\* C6: a pattern longer than the Text is never in the result of
\* brute_force_search, and it is in the result of rolling_hash_search only
\* when its fingerprint equals that of a non-empty substring of the Text of
\* length at most max_len; with no collision it is in neither result.
C6_LongPatternOnlyByCollision ==
    \A p \in LongPatterns :
        /\ brute_done => p \notin Elems(brute_result)
        /\ AtBruteReturn => p \notin Elems(result)
        /\ (rolling_done /\ p \in Elems(rolling_result)) =>
              /\ ~HashInjective
              /\ \E s \in SubstringsUpTo(main_str, max_pattern_len(substrings)) :
                    s \in DOMAIN hash /\ hash[s] = hash[p]

\* C6 as stated: a pattern longer than the Text is in neither result.
C6_AsStated ==
    \A p \in LongPatterns :
        /\ brute_done => p \notin Elems(brute_result)
        /\ rolling_done => p \notin Elems(rolling_result)

\* both strategies have returned; one kept a too-long pattern out and the
\* other let it in
C6_Witness_LongPatternCollides ==
    /\ brute_done
    /\ rolling_done
    /\ \E p \in LongPatterns : p \in Elems(rolling_result) /\ p \notin Elems(brute_result)

\* C8: a strategy called again on the same inputs, with any other calls in
\* between, returns the list it returned before, and no step changes the Text
\* or the Pattern Set.
C8_Idempotent ==
    [][ /\ (AtBruteReturn /\ brute_done /\ pc' = "idle") => brute_result' = brute_result
        /\ (AtRollingReturn /\ rolling_done /\ pc' = "idle") =>
              rolling_result' = rolling_result
        /\ main_str' = main_str
        /\ substrings' = substrings ]_vars

\* a second call of brute_force_search about to return a non-empty list,
\* after rolling_hash_search has run as well
C8_Witness_SecondCall ==
    /\ AtBruteReturn
    /\ brute_done
    /\ rolling_done
    /\ brute_result # <<>>
    /\ rolling_result # brute_result

\* C9: create_substring_hashes(Text, max_len) returns exactly the set of the
\* fingerprints of the substrings of Text of length 1..max_len at every valid
\* offset, one hash computation per offset; without collisions its size is
\* the number of distinct such substrings.
C9_FingerprintSetExact ==
    AtCshReturn =>
        /\ SubstringsUpTo(main_str, max_len) \subseteq DOMAIN hash
        /\ substring_hashes = {hash[s] : s \in SubstringsUpTo(main_str, max_len)}
        /\ HashInjective =>
              Cardinality(substring_hashes) = Cardinality(SubstringsUpTo(main_str, max_len))

\* a call about to return a set in which two offsets collapsed to one element
C9_Witness_Collapsed ==
    /\ AtCshReturn
    /\ max_len > Len(main_str)
    /\ Cardinality(substring_hashes) = 2
    /\ hash_ops = 3

\* C10: the operation count printed by the harness and by main, the sum over
\* k in 1..max_len of len(Text) - k + 1, is the number of hash computations
\* create_substring_hashes performs for a non-empty Pattern Set.
C10_ReportedCountIsActual ==
    (AtCshReturn /\ caller = "rolling_hash_search" /\ substrings # <<>>) =>
        hash_ops = total_substrings_generated(main_str, substrings)

\* C7: analyze_time_complexity never raises; when it has returned, each
\* strategy was timed exactly `iterations` times, the summary was printed and
\* (brute_avg, rolling_avg) came back.
C7_HarnessNeverRaises ==
    /\ pc # "raised"
    /\ raised = "none"
    /\ (pc = "idle" /\ iterations > 0) =>
          /\ Len(brute_times) = iterations
          /\ Len(rolling_times) = iterations
          /\ Len(report) = 5
          /\ returned = <<Avg(brute_times), Avg(rolling_times)>>

====
